---- MODULE Spec2Model ----
(***************************************************************************)
(* A model of gcovr/coverage.py: the coverage data model (BranchCoverage,  *)
(* DecisionCoverage*, FunctionCoverage, LineCoverage, FileCoverage), the   *)
(* statistics types (CoverageStat, DecisionCoverageStat, SummarizedStats)  *)
(* and the range compression used by uncovered_lines_str().                *)
(*                                                                         *)
(* Conventions.                                                            *)
(*  - A Python dict is a TLA+ function; the empty dict is << >>.           *)
(*  - A call either returns or raises: Ok(v) / Raise(e).                   *)
(*  - A float with one decimal is the integer number of tenths it holds:   *)
(*    Float(999) is 99.9 and Float(1000) is 100.0.                         *)
(*  - A Python str is the sequence of its characters.                      *)
(*  - ret is the outcome of the last call; every action sets it.           *)
(***************************************************************************)
EXTENDS Integers, Sequences, FiniteSets, TLC

VARIABLES covdata, ret, stat, stats, grp, pending

vars == <<covdata, ret, stat, stats, grp, pending>>

----------------------------------------------------------------------------
(* Bounds of the model.                                                    *)

MaxTotal == 12
BigTotal == 10000
FirstLine == 7
MaxLine == 4
MaxFileLine == 2
MaxBranchId == 1
MaxEntities == 2
MaxFiles == 3

----------------------------------------------------------------------------
(* Values.                                                                 *)

NoneVal == [kind |-> "None"]
Float(tenths) == [kind |-> "float", tenths |-> tenths]
Str(s) == [kind |-> "str", s |-> s]

Ok(v) == [error |-> "none", value |-> v]
Raise(e) == [error |-> e, value |-> NoneVal]

Min(a, b) == IF a <= b THEN a ELSE b

EmptyDict == << >>

----------------------------------------------------------------------------
(* CoverageStat and DecisionCoverageStat.                                  *)

CoverageStat(covered, total) == [covered |-> covered, total |-> total]

CoverageStat_new_empty == CoverageStat(0, 0)

\* round(covered / total * 100.0, 1), in tenths, for 0 <= covered < total.
\* The value 1000*covered/total is rounded to the nearest integer.  When it
\* lies exactly halfway between two tenths the outcome depends on the binary
\* rounding of the two float operations, so both neighbours are possible.
Round1(covered, total) ==
    LET q == (1000 * covered) \div total
        r == (1000 * covered) % total
    IN  IF 2 * r < total THEN {q}
        ELSE IF 2 * r > total THEN {q + 1}
        ELSE {q, q + 1}

\* percent_or without the clamp to 99.9.
CoverageStat_percent_or_unclamped(self, default) ==
    IF self.total = 0 THEN {default}
    ELSE IF self.covered = self.total THEN {Float(1000)}
    ELSE {Float(t) : t \in Round1(self.covered, self.total)}

\* percent_or that reports 0.0 when there are no elements.
CoverageStat_percent_or_zero(self, default) ==
    IF self.total = 0 THEN {Float(0)}
    ELSE IF self.covered = self.total THEN {Float(1000)}
    ELSE {Float(Min(999, t)) : t \in Round1(self.covered, self.total)}

\* The set of values CoverageStat.percent_or(default) can return.
CoverageStat_percent_or(self, default) ==
    IF self.total = 0 THEN {default}
    ELSE IF self.covered = self.total THEN {Float(1000)}
    ELSE {Float(Min(999, t)) : t \in Round1(self.covered, self.total)}

CoverageStat_percent(self) == CoverageStat_percent_or(self, NoneVal)

CoverageStat_iadd(self, other) ==
    [self EXCEPT !.covered = self.covered + other.covered,
                 !.total = self.total + other.total]

DecisionCoverageStat(covered, uncheckable, total) ==
    [covered |-> covered, uncheckable |-> uncheckable, total |-> total]

DecisionCoverageStat_new_empty == DecisionCoverageStat(0, 0, 0)

DecisionCoverageStat_to_coverage_stat(self) ==
    CoverageStat(self.covered, self.total)

DecisionCoverageStat_percent(self) ==
    CoverageStat_percent(DecisionCoverageStat_to_coverage_stat(self))

DecisionCoverageStat_percent_or(self, default) ==
    CoverageStat_percent_or(DecisionCoverageStat_to_coverage_stat(self), default)

DecisionCoverageStat_iadd(self, other) ==
    [self EXCEPT !.covered = self.covered + other.covered,
                 !.uncheckable = self.uncheckable + other.uncheckable,
                 !.total = self.total + other.total]

calculate_coverage(covered, total, nan_value) ==
    CoverageStat_percent_or(CoverageStat(covered, total), nan_value)

----------------------------------------------------------------------------
(* The coverage entities.  A constructor returns Ok(entity), or raises the *)
(* AssertionError of its assert statement.                                 *)

BranchCoverage(count, fallthrough, throw) ==
    IF count >= 0
    THEN Ok([count |-> count, fallthrough |-> fallthrough, throw |-> throw])
    ELSE Raise("AssertionError")

BranchCoverage_is_covered(self) == self.count > 0

DecisionCoverageUncheckable == Ok([kind |-> "Uncheckable"])

DecisionCoverageConditional(count_true, count_false) ==
    IF count_true >= 0 /\ count_false >= 0
    THEN Ok([kind |-> "Conditional",
             count_true |-> count_true, count_false |-> count_false])
    ELSE Raise("AssertionError")

DecisionCoverageSwitch(count) ==
    IF count >= 0
    THEN Ok([kind |-> "Switch", count |-> count])
    ELSE Raise("AssertionError")

FunctionCoverage(name, call_count) ==
    IF call_count >= 0
    THEN Ok([name |-> name, count |-> call_count, lineno |-> 0])
    ELSE Raise("AssertionError")

\* A LineCoverage that clamps a negative count to zero.
LineCoverage_clamped(lineno, count, noncode, excluded) ==
    IF lineno > 0
    THEN Ok([lineno |-> lineno, count |-> IF count < 0 THEN 0 ELSE count,
             noncode |-> noncode, excluded |-> excluded,
             branches |-> EmptyDict, decision |-> NoneVal])
    ELSE Raise("AssertionError")

LineCoverage(lineno, count, noncode, excluded) ==
    IF lineno > 0 /\ count >= 0
    THEN Ok([lineno |-> lineno, count |-> count, noncode |-> noncode,
             excluded |-> excluded, branches |-> EmptyDict,
             decision |-> NoneVal])
    ELSE Raise("AssertionError")

LineCoverage_is_covered(self) ==
    IF self.noncode THEN FALSE ELSE self.count > 0

\* is_uncovered that forgets noncode.
LineCoverage_is_uncovered_any(self) == self.count = 0

LineCoverage_is_uncovered(self) ==
    IF self.noncode THEN FALSE ELSE self.count = 0

\* A call obj.method(...) that may change obj: the object afterwards and
\* what the call returned or raised.
Call(self, result) == [self |-> self, result |-> result]

LineCoverage_branch(self, branch_id) ==
    IF branch_id \in DOMAIN self.branches
    THEN Call(self, Ok(self.branches[branch_id]))
    ELSE LET branch_cov == BranchCoverage(0, FALSE, FALSE)
         IN  IF branch_cov.error = "none"
             THEN Call([self EXCEPT !.branches =
                            (branch_id :> branch_cov.value) @@ @],
                       branch_cov)
             ELSE Call(self, branch_cov)

RECURSIVE CountCoveredBranches(_, _)
CountCoveredBranches(branches, ids) ==
    IF ids = {} THEN 0
    ELSE LET id == CHOOSE i \in ids : TRUE
         IN  (IF BranchCoverage_is_covered(branches[id]) THEN 1 ELSE 0)
             + CountCoveredBranches(branches, ids \ {id})

\* branch_coverage() with the arguments of CoverageStat swapped.
LineCoverage_branch_coverage_swapped(self) ==
    CoverageStat(Cardinality(DOMAIN self.branches),
                 CountCoveredBranches(self.branches, DOMAIN self.branches))

LineCoverage_branch_coverage(self) ==
    CoverageStat(CountCoveredBranches(self.branches, DOMAIN self.branches),
                 Cardinality(DOMAIN self.branches))

\* decision_coverage() that looks at count_true only.
LineCoverage_decision_coverage_true_only(self) ==
    IF self.decision.kind = "None"
    THEN Ok(DecisionCoverageStat(0, 0, 0))
    ELSE IF self.decision.kind = "Uncheckable"
    THEN Ok(DecisionCoverageStat(0, 1, 2))
    ELSE IF self.decision.kind = "Conditional"
    THEN Ok(DecisionCoverageStat(
                IF self.decision.count_true > 0 THEN 1 ELSE 0, 0, 2))
    ELSE IF self.decision.kind = "Switch"
    THEN Ok(DecisionCoverageStat(
                IF self.decision.count > 0 THEN 1 ELSE 0, 0, 1))
    ELSE Raise("RuntimeError")

LineCoverage_decision_coverage(self) ==
    IF self.decision.kind = "None"
    THEN Ok(DecisionCoverageStat(0, 0, 0))
    ELSE IF self.decision.kind = "Uncheckable"
    THEN Ok(DecisionCoverageStat(0, 1, 2))
    ELSE IF self.decision.kind = "Conditional"
    THEN Ok(DecisionCoverageStat(
                (IF self.decision.count_true > 0 THEN 1 ELSE 0)
                + (IF self.decision.count_false > 0 THEN 1 ELSE 0), 0, 2))
    ELSE IF self.decision.kind = "Switch"
    THEN Ok(DecisionCoverageStat(
                IF self.decision.count > 0 THEN 1 ELSE 0, 0, 1))
    ELSE Raise("RuntimeError")

FileCoverage(filename) ==
    [filename |-> filename, functions |-> EmptyDict, lines |-> EmptyDict]

\* line() that stores a new LineCoverage whether or not the key is present.
FileCoverage_line_overwrite(self, lineno, count, noncode, excluded) ==
    LET line_cov == LineCoverage(lineno, count, noncode, excluded)
    IN  IF line_cov.error = "none"
        THEN Call([self EXCEPT !.lines =
                       (lineno :> line_cov.value) @@ @],
                  line_cov)
        ELSE Call(self, line_cov)

FileCoverage_line(self, lineno, count, noncode, excluded) ==
    IF lineno \in DOMAIN self.lines
    THEN Call(self, Ok(self.lines[lineno]))
    ELSE LET line_cov == LineCoverage(lineno, count, noncode, excluded)
         IN  IF line_cov.error = "none"
             THEN Call([self EXCEPT !.lines = (lineno :> line_cov.value) @@ @],
                       line_cov)
             ELSE Call(self, line_cov)

FileCoverage_function(self, function_name) ==
    IF function_name \in DOMAIN self.functions
    THEN Call(self, Ok(self.functions[function_name]))
    ELSE LET function_cov == FunctionCoverage(function_name, 0)
         IN  IF function_cov.error = "none"
             THEN Call([self EXCEPT !.functions =
                            (function_name :> function_cov.value) @@ @],
                       function_cov)
             ELSE Call(self, function_cov)

RECURSIVE CountCalledFunctions(_, _)
CountCalledFunctions(functions, names) ==
    IF names = {} THEN 0
    ELSE LET name == CHOOSE n \in names : TRUE
         IN  (IF functions[name].count > 0 THEN 1 ELSE 0)
             + CountCalledFunctions(functions, names \ {name})

FileCoverage_function_coverage(self) ==
    CoverageStat(CountCalledFunctions(self.functions, DOMAIN self.functions),
                 Cardinality(DOMAIN self.functions))

\* The loop of line_coverage() over the lines not yet visited.
RECURSIVE LineCoverageLoop(_, _, _)
LineCoverageLoop(lines, linenos, acc) ==
    IF linenos = {} THEN acc
    ELSE LET lineno == CHOOSE l \in linenos : TRUE
             line == lines[lineno]
             total == IF LineCoverage_is_covered(line)
                         \/ LineCoverage_is_uncovered(line)
                      THEN acc.total + 1 ELSE acc.total
             covered == IF LineCoverage_is_covered(line)
                        THEN acc.covered + 1 ELSE acc.covered
         IN  LineCoverageLoop(lines, linenos \ {lineno},
                              CoverageStat(covered, total))

FileCoverage_line_coverage(self) ==
    LineCoverageLoop(self.lines, DOMAIN self.lines, CoverageStat(0, 0))

RECURSIVE BranchCoverageLoop(_, _, _)
BranchCoverageLoop(lines, linenos, acc) ==
    IF linenos = {} THEN acc
    ELSE LET lineno == CHOOSE l \in linenos : TRUE
         IN  BranchCoverageLoop(lines, linenos \ {lineno},
                 CoverageStat_iadd(acc,
                     LineCoverage_branch_coverage(lines[lineno])))

FileCoverage_branch_coverage(self) ==
    BranchCoverageLoop(self.lines, DOMAIN self.lines, CoverageStat_new_empty)

\* acc is Ok(stat) until a line's decision_coverage() raises.
RECURSIVE DecisionCoverageLoop(_, _, _)
DecisionCoverageLoop(lines, linenos, acc) ==
    IF linenos = {} \/ acc.error # "none" THEN acc
    ELSE LET lineno == CHOOSE l \in linenos : TRUE
             line_stat == LineCoverage_decision_coverage(lines[lineno])
         IN  DecisionCoverageLoop(lines, linenos \ {lineno},
                 IF line_stat.error = "none"
                 THEN Ok(DecisionCoverageStat_iadd(acc.value, line_stat.value))
                 ELSE line_stat)

FileCoverage_decision_coverage(self) ==
    DecisionCoverageLoop(self.lines, DOMAIN self.lines,
                         Ok(DecisionCoverageStat_new_empty))

----------------------------------------------------------------------------
(* uncovered_lines_str() and the range compression.                        *)

Digit(d) == <<"0", "1", "2", "3", "4", "5", "6", "7", "8", "9">>[d + 1]

\* str(n) for an int n >= 0.
RECURSIVE str(_)
str(n) == IF n < 10 THEN <<Digit(n)>> ELSE str(n \div 10) \o <<Digit(n % 10)>>

\* sorted(items) for a set of ints.
RECURSIVE sorted(_)
sorted(items) ==
    IF items = {} THEN << >>
    ELSE LET least == CHOOSE x \in items : \A y \in items : x <= y
         IN  <<least>> \o sorted(items \ {least})

\* The generator _find_consecutive_ranges from item i of items on; first and
\* last are << >> for None and <<n>> for n; yielded is what was yielded.
RECURSIVE FindRangesLoop(_, _, _, _, _)
FindRangesLoop(items, i, first, last, yielded) ==
    IF i > Len(items)
    THEN IF last # << >> THEN Append(yielded, <<first[1], last[1]>>)
         ELSE yielded
    ELSE IF last = << >>
    THEN FindRangesLoop(items, i + 1, <<items[i]>>, <<items[i]>>, yielded)
    ELSE IF items[i] = last[1] + 1
    THEN FindRangesLoop(items, i + 1, first, <<items[i]>>, yielded)
    ELSE FindRangesLoop(items, i + 1, <<items[i]>>, <<items[i]>>,
                        Append(yielded, <<first[1], last[1]>>))

\* The generator without the yield after the loop.
_find_consecutive_ranges_no_final(items) ==
    LET ranges == FindRangesLoop(items, 1, << >>, << >>, << >>)
    IN  SubSeq(ranges, 1, Len(ranges) - 1)

_find_consecutive_ranges(items) ==
    FindRangesLoop(items, 1, << >>, << >>, << >>)

_format_range(first, last) ==
    IF first = last THEN str(first)
    ELSE str(first) \o <<"-">> \o str(last)

\* sep.join(parts)
RECURSIVE join(_, _)
join(sep, parts) ==
    IF parts = << >> THEN << >>
    ELSE IF Len(parts) = 1 THEN parts[1]
    ELSE parts[1] \o sep \o join(sep, Tail(parts))

FileCoverage_uncovered_lines_str(self) ==
    LET uncovered_lines ==
            sorted({lineno \in DOMAIN self.lines :
                        LineCoverage_is_uncovered(self.lines[lineno])})
        ranges == _find_consecutive_ranges(uncovered_lines)
    IN  IF uncovered_lines = << >> THEN << >>
        ELSE join(<<",">>, [k \in 1..Len(ranges) |->
                               _format_range(ranges[k][1], ranges[k][2])])

----------------------------------------------------------------------------
(* SummarizedStats.                                                        *)

SummarizedStats(line, branch, function, decision) ==
    [line |-> line, branch |-> branch, function |-> function,
     decision |-> decision]

SummarizedStats_new_empty ==
    SummarizedStats(CoverageStat_new_empty, CoverageStat_new_empty,
                    CoverageStat_new_empty, DecisionCoverageStat_new_empty)

\* Ok(stats), or the RuntimeError of decision_coverage().
SummarizedStats_from_file(filecov) ==
    LET decision == FileCoverage_decision_coverage(filecov)
    IN  IF decision.error = "none"
        THEN Ok(SummarizedStats(FileCoverage_line_coverage(filecov),
                                FileCoverage_branch_coverage(filecov),
                                FileCoverage_function_coverage(filecov),
                                decision.value))
        ELSE decision

\* __iadd__ that forgets to merge the decision stats.
SummarizedStats_iadd_no_decision(self, other) ==
    SummarizedStats(CoverageStat_iadd(self.line, other.line),
                    CoverageStat_iadd(self.branch, other.branch),
                    CoverageStat_iadd(self.function, other.function),
                    self.decision)

SummarizedStats_iadd(self, other) ==
    SummarizedStats(CoverageStat_iadd(self.line, other.line),
                    CoverageStat_iadd(self.branch, other.branch),
                    CoverageStat_iadd(self.function, other.function),
                    DecisionCoverageStat_iadd(self.decision, other.decision))

\* The loop of from_covdata() over the files not yet visited.
RECURSIVE FromCovdataLoop(_, _, _)
FromCovdataLoop(data, filenames, acc) ==
    IF filenames = {} \/ acc.error # "none" THEN acc
    ELSE LET filename == CHOOSE f \in filenames : TRUE
             file_stats == SummarizedStats_from_file(data[filename])
         IN  FromCovdataLoop(data, filenames \ {filename},
                 IF file_stats.error = "none"
                 THEN Ok(SummarizedStats_iadd(acc.value, file_stats.value))
                 ELSE file_stats)

SummarizedStats_from_covdata(data) ==
    FromCovdataLoop(data, DOMAIN data, Ok(SummarizedStats_new_empty))

----------------------------------------------------------------------------
(* The outcome of the last call.                                           *)

NoRet == [op |-> "none", error |-> "none", value |-> NoneVal]

Returned(op, args, result) ==
    [op |-> op, args |-> args, error |-> result.error, value |-> result.value]

----------------------------------------------------------------------------
(* Percentages: a statistic object and the calls on it.                    *)

DocCovered == 1234

CoveredInputs ==
    (0..MaxTotal) \cup {BigTotal - k : k \in 0..MaxTotal}
                  \cup {DocCovered + k : k \in 0..MaxTotal}

TotalInputs == (0..MaxTotal) \cup {BigTotal}

DefaultInputs == {NoneVal, Str("default"), Float(0), Float(1000)}

StatInputs ==
    {CoverageStat(c, t) : c \in CoveredInputs, t \in TotalInputs}
    \cup {DecisionCoverageStat(c, u, t) :
              c \in CoveredInputs, u \in 0..1, t \in TotalInputs}

IsDecisionStat(s) == "uncheckable" \in DOMAIN s

InitStat ==
    /\ stat \in StatInputs
    /\ ret = NoRet
    /\ covdata = EmptyDict
    /\ stats = SummarizedStats_new_empty
    /\ grp = SummarizedStats_new_empty
    /\ pending = {}

StatPercent ==
    /\ ~IsDecisionStat(stat)
    /\ \E v \in CoverageStat_percent(stat) :
           ret' = Returned("CoverageStat.percent", NoneVal, Ok(v))
    /\ UNCHANGED <<covdata, stat, stats, grp, pending>>

StatPercentOr(default) ==
    /\ ~IsDecisionStat(stat)
    /\ \E v \in CoverageStat_percent_or(stat, default) :
           ret' = Returned("CoverageStat.percent_or", default, Ok(v))
    /\ UNCHANGED <<covdata, stat, stats, grp, pending>>

DecisionStatPercent ==
    /\ IsDecisionStat(stat)
    /\ \E v \in DecisionCoverageStat_percent(stat) :
           ret' = Returned("DecisionCoverageStat.percent", NoneVal, Ok(v))
    /\ UNCHANGED <<covdata, stat, stats, grp, pending>>

DecisionStatPercentOr(default) ==
    /\ IsDecisionStat(stat)
    /\ \E v \in DecisionCoverageStat_percent_or(stat, default) :
           ret' = Returned("DecisionCoverageStat.percent_or", default, Ok(v))
    /\ UNCHANGED <<covdata, stat, stats, grp, pending>>

\* calculate_coverage(stat.covered, stat.total, nan_value)
CalculateCoverage(nan_value) ==
    /\ ~IsDecisionStat(stat)
    /\ \E v \in calculate_coverage(stat.covered, stat.total, nan_value) :
           ret' = Returned("calculate_coverage", nan_value, Ok(v))
    /\ UNCHANGED <<covdata, stat, stats, grp, pending>>

NextStat ==
    \/ StatPercent
    \/ \E default \in DefaultInputs : StatPercentOr(default)
    \/ DecisionStatPercent
    \/ \E default \in DefaultInputs : DecisionStatPercentOr(default)
    \/ \E nan_value \in DefaultInputs : CalculateCoverage(nan_value)

SpecStat == InitStat /\ [][NextStat]_vars

PercentOps ==
    {"CoverageStat.percent", "CoverageStat.percent_or",
     "DecisionCoverageStat.percent", "DecisionCoverageStat.percent_or",
     "calculate_coverage"}

\* C1: for a CoverageStat with total > 0 and 0 <= covered <= total, percent
\* and percent_or(default) are 100.0 exactly when covered = total, and at most
\* 99.9 when covered < total.
C1_HundredOnlyWhenAllCovered ==
    (/\ ret.op \in {"CoverageStat.percent", "CoverageStat.percent_or"}
     /\ stat.total > 0 /\ 0 <= stat.covered /\ stat.covered <= stat.total)
    => /\ ret.error = "none"
       /\ ret.value.kind = "float"
       /\ (ret.value.tenths = 1000) <=> (stat.covered = stat.total)
       /\ stat.covered < stat.total => ret.value.tenths <= 999

\* 9999 of 10000 rounds to 100.0 at one decimal and is reported as 99.9.
C1_Witness ==
    /\ ret.op = "CoverageStat.percent_or"
    /\ stat.total = BigTotal /\ stat.covered = BigTotal - 1
    /\ Round1(stat.covered, stat.total) = {1000}
    /\ ret.value = Float(999)

\* C5: with total = 0, percent_or(default) of a CoverageStat or a
\* DecisionCoverageStat returns the default, percent returns None and
\* calculate_coverage returns its nan_value; nothing is raised.
C5_ZeroTotalGivesDefault ==
    (ret.op \in PercentOps /\ stat.total = 0)
    => /\ ret.error = "none"
       /\ ret.value = ret.args
       /\ ret.op \in {"CoverageStat.percent", "DecisionCoverageStat.percent"}
              => ret.value = NoneVal

C5_Witness ==
    /\ ret.op = "DecisionCoverageStat.percent_or"
    /\ stat.total = 0
    /\ ret.args = Str("default")
    /\ ret.value = Str("default")

\* C9: for a CoverageStat with 0 <= covered < total, percent_or is
\* 100*covered/total truncated to one decimal, capped at 99.9.
C9_TruncatedToOneDecimal ==
    (/\ ret.op = "CoverageStat.percent_or"
     /\ 0 <= stat.covered /\ stat.covered < stat.total)
    => ret.value = Float(Min(999, (1000 * stat.covered) \div stat.total))

----------------------------------------------------------------------------
(* The calls on the files of covdata.                                      *)

\* The code only compares a count with 0: one count of each sign.
CountInputs == {-1, 0, 1}

FileLine(f, lineno, count, noncode, excluded) ==
    /\ f \in DOMAIN covdata
    /\ LET call == FileCoverage_line(covdata[f], lineno, count, noncode, excluded)
       IN  /\ covdata' = [covdata EXCEPT ![f] = call.self]
           /\ ret' = Returned("FileCoverage.line",
                              [filename |-> f, lineno |-> lineno,
                               count |-> count, noncode |-> noncode,
                               excluded |-> excluded],
                              call.result)
    /\ UNCHANGED <<stat, stats, grp, pending>>

FileUncoveredLinesStr(f) ==
    /\ f \in DOMAIN covdata
    /\ ret' = Returned("FileCoverage.uncovered_lines_str", [filename |-> f],
                       Ok(FileCoverage_uncovered_lines_str(covdata[f])))
    /\ UNCHANGED <<covdata, stat, stats, grp, pending>>

FileLineCoverage(f) ==
    /\ f \in DOMAIN covdata
    /\ ret' = Returned("FileCoverage.line_coverage", [filename |-> f],
                       Ok(FileCoverage_line_coverage(covdata[f])))
    /\ UNCHANGED <<covdata, stat, stats, grp, pending>>

FileFunction(f, function_name) ==
    /\ f \in DOMAIN covdata
    /\ LET call == FileCoverage_function(covdata[f], function_name)
       IN  /\ covdata' = [covdata EXCEPT ![f] = call.self]
           /\ ret' = Returned("FileCoverage.function",
                              [filename |-> f, name |-> function_name],
                              call.result)
    /\ UNCHANGED <<stat, stats, grp, pending>>

\* covdata[f].lines[lineno].branch(branch_id), on the handle of a line.
LineBranch(f, lineno, branch_id) ==
    /\ f \in DOMAIN covdata
    /\ lineno \in DOMAIN covdata[f].lines
    /\ LET call == LineCoverage_branch(covdata[f].lines[lineno], branch_id)
       IN  /\ covdata' = [covdata EXCEPT ![f].lines[lineno] = call.self]
           /\ ret' = Returned("LineCoverage.branch",
                              [filename |-> f, lineno |-> lineno,
                               branch_id |-> branch_id],
                              call.result)
    /\ UNCHANGED <<stat, stats, grp, pending>>

\* The ingestion assigns to the fields of the handles it got: line.count,
\* branch.count, function.count, line.decision.
SetLineCount(f, lineno, count) ==
    /\ f \in DOMAIN covdata
    /\ lineno \in DOMAIN covdata[f].lines
    /\ covdata' = [covdata EXCEPT ![f].lines[lineno].count = count]
    /\ ret' = Returned("line.count=", NoneVal, Ok(NoneVal))
    /\ UNCHANGED <<stat, stats, grp, pending>>

SetBranchCount(f, lineno, branch_id, count) ==
    /\ f \in DOMAIN covdata
    /\ lineno \in DOMAIN covdata[f].lines
    /\ branch_id \in DOMAIN covdata[f].lines[lineno].branches
    /\ covdata' = [covdata EXCEPT
                       ![f].lines[lineno].branches[branch_id].count = count]
    /\ ret' = Returned("branch.count=", NoneVal, Ok(NoneVal))
    /\ UNCHANGED <<stat, stats, grp, pending>>

SetFunctionCount(f, function_name, count) ==
    /\ f \in DOMAIN covdata
    /\ function_name \in DOMAIN covdata[f].functions
    /\ covdata' = [covdata EXCEPT ![f].functions[function_name].count = count]
    /\ ret' = Returned("function.count=", NoneVal, Ok(NoneVal))
    /\ UNCHANGED <<stat, stats, grp, pending>>

\* line.decision = <constructor call>; nothing is assigned when the
\* constructor raises.
SetLineDecision(f, lineno, op, args, constructed) ==
    /\ f \in DOMAIN covdata
    /\ lineno \in DOMAIN covdata[f].lines
    /\ covdata' = IF constructed.error = "none"
                  THEN [covdata EXCEPT
                            ![f].lines[lineno].decision = constructed.value]
                  ELSE covdata
    /\ ret' = Returned(op, args, constructed)
    /\ UNCHANGED <<stat, stats, grp, pending>>

SetDecisionUncheckable(f, lineno) ==
    SetLineDecision(f, lineno, "DecisionCoverageUncheckable",
                    [filename |-> f, lineno |-> lineno],
                    DecisionCoverageUncheckable)

SetDecisionConditional(f, lineno, count_true, count_false) ==
    SetLineDecision(f, lineno, "DecisionCoverageConditional",
                    [filename |-> f, lineno |-> lineno,
                     count_true |-> count_true, count_false |-> count_false],
                    DecisionCoverageConditional(count_true, count_false))

SetDecisionSwitch(f, lineno, count) ==
    SetLineDecision(f, lineno, "DecisionCoverageSwitch",
                    [filename |-> f, lineno |-> lineno, count |-> count],
                    DecisionCoverageSwitch(count))

\* line.decision = an object of none of the three decision classes.
SetDecisionOther(f, lineno) ==
    SetLineDecision(f, lineno, "object",
                    [filename |-> f, lineno |-> lineno], Ok(Str("object")))

\* Constructor calls of the ingestion whose result is not stored here.
ConstructBranch(count, fallthrough, throw) ==
    /\ ret' = Returned("BranchCoverage",
                       [count |-> count, fallthrough |-> fallthrough,
                        throw |-> throw],
                       BranchCoverage(count, fallthrough, throw))
    /\ UNCHANGED <<covdata, stat, stats, grp, pending>>

ConstructFunction(name, call_count) ==
    /\ ret' = Returned("FunctionCoverage",
                       [name |-> name, call_count |-> call_count],
                       FunctionCoverage(name, call_count))
    /\ UNCHANGED <<covdata, stat, stats, grp, pending>>

LineBranchCoverage(f, lineno) ==
    /\ f \in DOMAIN covdata
    /\ lineno \in DOMAIN covdata[f].lines
    /\ ret' = Returned("LineCoverage.branch_coverage",
                       [filename |-> f, lineno |-> lineno],
                       Ok(LineCoverage_branch_coverage(covdata[f].lines[lineno])))
    /\ UNCHANGED <<covdata, stat, stats, grp, pending>>

LineDecisionCoverage(f, lineno) ==
    /\ f \in DOMAIN covdata
    /\ lineno \in DOMAIN covdata[f].lines
    /\ ret' = Returned("LineCoverage.decision_coverage",
                       [filename |-> f, lineno |-> lineno],
                       LineCoverage_decision_coverage(covdata[f].lines[lineno]))
    /\ UNCHANGED <<covdata, stat, stats, grp, pending>>

\* line.decision_coverage().percent
LineDecisionPercent(f, lineno) ==
    /\ f \in DOMAIN covdata
    /\ lineno \in DOMAIN covdata[f].lines
    /\ LET line_stat == LineCoverage_decision_coverage(covdata[f].lines[lineno])
       IN  IF line_stat.error = "none"
           THEN \E v \in DecisionCoverageStat_percent(line_stat.value) :
                    ret' = Returned("LineCoverage.decision_coverage.percent",
                                    [filename |-> f, lineno |-> lineno], Ok(v))
           ELSE ret' = Returned("LineCoverage.decision_coverage.percent",
                                [filename |-> f, lineno |-> lineno], line_stat)
    /\ UNCHANGED <<covdata, stat, stats, grp, pending>>

FileFunctionCoverage(f) ==
    /\ f \in DOMAIN covdata
    /\ ret' = Returned("FileCoverage.function_coverage", [filename |-> f],
                       Ok(FileCoverage_function_coverage(covdata[f])))
    /\ UNCHANGED <<covdata, stat, stats, grp, pending>>

FileBranchCoverage(f) ==
    /\ f \in DOMAIN covdata
    /\ ret' = Returned("FileCoverage.branch_coverage", [filename |-> f],
                       Ok(FileCoverage_branch_coverage(covdata[f])))
    /\ UNCHANGED <<covdata, stat, stats, grp, pending>>

FileDecisionCoverage(f) ==
    /\ f \in DOMAIN covdata
    /\ ret' = Returned("FileCoverage.decision_coverage", [filename |-> f],
                       FileCoverage_decision_coverage(covdata[f]))
    /\ UNCHANGED <<covdata, stat, stats, grp, pending>>

FromFile(f) ==
    /\ f \in DOMAIN covdata
    /\ ret' = Returned("SummarizedStats.from_file", [filename |-> f],
                       SummarizedStats_from_file(covdata[f]))
    /\ UNCHANGED <<covdata, stat, stats, grp, pending>>

FromCovdata ==
    /\ ret' = Returned("SummarizedStats.from_covdata", NoneVal,
                       SummarizedStats_from_covdata(covdata))
    /\ UNCHANGED <<covdata, stat, stats, grp, pending>>

----------------------------------------------------------------------------
(* Lines of one file: line(), uncovered_lines_str() and line_coverage().   *)

LineInputs == {0} \cup (FirstLine..(FirstLine + MaxLine - 1))

InitLines ==
    /\ covdata = ("a.c" :> FileCoverage("a.c"))
    /\ ret = NoRet
    /\ stat = CoverageStat_new_empty
    /\ stats = SummarizedStats_new_empty
    /\ grp = SummarizedStats_new_empty
    /\ pending = {}

NextLines ==
    \/ \E lineno \in LineInputs, count \in CountInputs, noncode \in BOOLEAN :
           FileLine("a.c", lineno, count, noncode, FALSE)
    \/ FileUncoveredLinesStr("a.c")
    \/ FileLineCoverage("a.c")

SpecLines == InitLines /\ [][NextLines]_vars

\* The uncovered lines of a file: noncode false and count 0.
UncoveredLines(filecov) ==
    {l \in DOMAIN filecov.lines :
         ~filecov.lines[l].noncode /\ filecov.lines[l].count = 0}

\* The maximal runs a..b of consecutive numbers of a set.
MaximalRuns(S) ==
    {run \in S \X S :
         /\ run[1] <= run[2]
         /\ \A n \in run[1]..run[2] : n \in S
         /\ (run[1] - 1) \notin S
         /\ (run[2] + 1) \notin S}

RECURSIVE RunsText(_)
RunsText(runs) ==
    IF runs = {} THEN << >>
    ELSE LET run == CHOOSE r \in runs : \A q \in runs : r[1] <= q[1]
             text == IF run[1] = run[2] THEN str(run[1])
                     ELSE str(run[1]) \o <<"-">> \o str(run[2])
         IN  IF runs = {run} THEN text
             ELSE text \o <<",">> \o RunsText(runs \ {run})

\* C4: uncovered_lines_str() is the ascending comma-separated list of the
\* maximal runs of consecutive uncovered line numbers, an isolated line
\* written as its number and a longer run as first-last; it is the empty
\* string when no line is uncovered.
C4_UncoveredLinesStrIsMaximalRuns ==
    ret.op = "FileCoverage.uncovered_lines_str"
    => /\ ret.error = "none"
       /\ ret.value = RunsText(MaximalRuns(UncoveredLines(covdata[ret.args.filename])))
       /\ UncoveredLines(covdata[ret.args.filename]) = {} => ret.value = << >>

\* Lines 7, 9 and 10 uncovered, line 8 not: "7,9-10".
C4_Witness ==
    /\ ret.op = "FileCoverage.uncovered_lines_str"
    /\ \E a \in UncoveredLines(covdata["a.c"]) :
           /\ (a + 1) \in DOMAIN covdata["a.c"].lines
           /\ {a + 2, a + 3} \subseteq UncoveredLines(covdata["a.c"])
           /\ (a + 1) \notin UncoveredLines(covdata["a.c"])
           /\ (a - 1) \notin UncoveredLines(covdata["a.c"])
           /\ (a + 4) \notin UncoveredLines(covdata["a.c"])
           /\ ret.value = str(a) \o <<",">> \o str(a + 2) \o <<"-">> \o str(a + 3)

\* C6: line_coverage() has total = the number of lines with noncode false and
\* covered = the number of lines with noncode false and count > 0.
C6_LineCoverageSkipsNoncode ==
    ret.op = "FileCoverage.line_coverage"
    => LET lines == covdata[ret.args.filename].lines
       IN  /\ ret.error = "none"
           /\ ret.value.total =
                  Cardinality({l \in DOMAIN lines : ~lines[l].noncode})
           /\ ret.value.covered =
                  Cardinality({l \in DOMAIN lines :
                                   ~lines[l].noncode /\ lines[l].count > 0})

\* One covered line, one noncode line with a count, one uncovered line: (1, 2).
C6_Witness ==
    /\ ret.op = "FileCoverage.line_coverage"
    /\ LET lines == covdata["a.c"].lines
       IN  /\ Cardinality(DOMAIN lines) = 3
           /\ \E a, b, c \in DOMAIN lines :
                  /\ ~lines[a].noncode /\ lines[a].count > 0
                  /\ lines[b].noncode /\ lines[b].count > 0
                  /\ ~lines[c].noncode /\ lines[c].count = 0
    /\ ret.value = CoverageStat(1, 2)

----------------------------------------------------------------------------
(* The ingestion creates at most MaxEntities lines, branches, functions    *)
(* and decisions in all files together.                                    *)

FileLineInputs == 0..MaxFileLine
BranchInputs == 0..MaxBranchId
FunctionInputs == {"f", "g"}
AssignedCounts == {0, 1}

RECURSIVE LineEntities(_, _)
LineEntities(lines, linenos) ==
    IF linenos = {} THEN 0
    ELSE LET l == CHOOSE x \in linenos : TRUE
         IN  1 + Cardinality(DOMAIN lines[l].branches)
               + (IF lines[l].decision = NoneVal THEN 0 ELSE 1)
               + LineEntities(lines, linenos \ {l})

RECURSIVE EntityCount(_, _)
EntityCount(data, filenames) ==
    IF filenames = {} THEN 0
    ELSE LET f == CHOOSE x \in filenames : TRUE
         IN  LineEntities(data[f].lines, DOMAIN data[f].lines)
             + Cardinality(DOMAIN data[f].functions)
             + EntityCount(data, filenames \ {f})

Room == EntityCount(covdata, DOMAIN covdata) < MaxEntities

HasDecision(f, lineno) ==
    /\ lineno \in DOMAIN covdata[f].lines
    /\ covdata[f].lines[lineno].decision # NoneVal

----------------------------------------------------------------------------
(* Accessors and constructors on one file.                                 *)

InitAccess ==
    /\ covdata = ("a.c" :> FileCoverage("a.c"))
    /\ ret = NoRet
    /\ stat = CoverageStat_new_empty
    /\ stats = SummarizedStats_new_empty
    /\ grp = SummarizedStats_new_empty
    /\ pending = {}

\* noncode and excluded of a line: neither, or one of them.
FlagInputs == {<<FALSE, FALSE>>, <<TRUE, FALSE>>, <<FALSE, TRUE>>}

NextAccess ==
    \/ \E lineno \in FileLineInputs, count \in CountInputs,
          flags \in FlagInputs :
           /\ lineno \in DOMAIN covdata["a.c"].lines \/ Room
           /\ FileLine("a.c", lineno, count, flags[1], flags[2])
    \/ \E name \in FunctionInputs :
           /\ name \in DOMAIN covdata["a.c"].functions \/ Room
           /\ FileFunction("a.c", name)
    \/ \E lineno \in FileLineInputs, branch_id \in BranchInputs :
           /\ lineno \in DOMAIN covdata["a.c"].lines
           /\ branch_id \in DOMAIN covdata["a.c"].lines[lineno].branches \/ Room
           /\ LineBranch("a.c", lineno, branch_id)
    \/ \E lineno \in FileLineInputs, count \in AssignedCounts :
           SetLineCount("a.c", lineno, count)
    \/ \E lineno \in FileLineInputs, branch_id \in BranchInputs,
          count \in AssignedCounts :
           SetBranchCount("a.c", lineno, branch_id, count)
    \/ \E name \in FunctionInputs, count \in AssignedCounts :
           SetFunctionCount("a.c", name, count)

SpecAccess == InitAccess /\ [][NextAccess]_vars

FreshLine(args) ==
    [lineno |-> args.lineno, count |-> args.count, noncode |-> args.noncode,
     excluded |-> args.excluded, branches |-> << >>, decision |-> NoneVal]

FreshFunction(args) == [name |-> args.name, count |-> 0, lineno |-> 0]

FreshBranch == [count |-> 0, fallthrough |-> FALSE, throw |-> FALSE]

\* What one step of line(), function() or branch() did to the dict d it
\* works on (its value before and after), for the key it was called with.
GetOrCreateStep(before, after, key, fresh) ==
    IF key \in DOMAIN before
    THEN /\ covdata' = covdata
         /\ ret'.error = "none"
         /\ ret'.value = before[key]
    ELSE ret'.error = "none"
         => /\ DOMAIN after = DOMAIN before \cup {key}
            /\ \A other \in DOMAIN before : after[other] = before[other]
            /\ after[key] = fresh
            /\ ret'.value = fresh

C3_Step ==
    /\ ret'.op = "FileCoverage.line"
       => LET f == ret'.args.filename
          IN  /\ GetOrCreateStep(covdata[f].lines, covdata'[f].lines,
                                 ret'.args.lineno, FreshLine(ret'.args))
              /\ covdata'[f].functions = covdata[f].functions
    /\ ret'.op = "FileCoverage.function"
       => LET f == ret'.args.filename
          IN  /\ GetOrCreateStep(covdata[f].functions, covdata'[f].functions,
                                 ret'.args.name, FreshFunction(ret'.args))
              /\ covdata'[f].lines = covdata[f].lines
    /\ ret'.op = "LineCoverage.branch"
       => LET f == ret'.args.filename
              l == ret'.args.lineno
          IN  /\ GetOrCreateStep(covdata[f].lines[l].branches,
                                 covdata'[f].lines[l].branches,
                                 ret'.args.branch_id, FreshBranch)
              /\ covdata'[f].functions = covdata[f].functions
              /\ DOMAIN covdata'[f].lines = DOMAIN covdata[f].lines
              /\ \A other \in DOMAIN covdata[f].lines \ {l} :
                     covdata'[f].lines[other] = covdata[f].lines[other]
              /\ [covdata'[f].lines[l] EXCEPT !.branches = << >>]
                     = [covdata[f].lines[l] EXCEPT !.branches = << >>]

\* C3: branch(id), line(lineno, defaults) and function(name) never overwrite:
\* called for a key that is present they return the stored entry and change
\* nothing (the defaults of line() are ignored); called for an absent key they
\* add exactly one entry (branch and function with count 0, line built from the
\* defaults) and leave every other entry unchanged.
C3_AccessorsNeverOverwrite == [][C3_Step]_vars

\* line() was called with a count other than the one of the stored line, which
\* already has a branch, and returned the stored line.
C3_Witness ==
    /\ ret.op = "FileCoverage.line"
    /\ ret.error = "none"
    /\ ret.args.count # ret.value.count
    /\ ret.value.branches # << >>
    /\ covdata[ret.args.filename].lines[ret.args.lineno] = ret.value

----------------------------------------------------------------------------
(* Constructor calls with counts of every sign.                            *)

NextConstruct ==
    \/ \E lineno \in FileLineInputs, count \in CountInputs :
           /\ lineno \in DOMAIN covdata["a.c"].lines \/ Room
           /\ FileLine("a.c", lineno, count, FALSE, FALSE)
    \/ \E lineno \in FileLineInputs, count_true, count_false \in CountInputs :
           /\ HasDecision("a.c", lineno) \/ Room
           /\ SetDecisionConditional("a.c", lineno, count_true, count_false)
    \/ \E lineno \in FileLineInputs, count \in CountInputs :
           /\ HasDecision("a.c", lineno) \/ Room
           /\ SetDecisionSwitch("a.c", lineno, count)
    \/ \E count \in CountInputs, fallthrough \in BOOLEAN :
           ConstructBranch(count, fallthrough, FALSE)
    \/ \E name \in FunctionInputs, call_count \in CountInputs :
           ConstructFunction(name, call_count)

SpecConstruct == InitAccess /\ [][NextConstruct]_vars

C8_Step ==
    /\ (ret'.op = "BranchCoverage" /\ ret'.args.count < 0)
       => ret'.error = "AssertionError" /\ ret'.value = NoneVal
    /\ (ret'.op = "FunctionCoverage" /\ ret'.args.call_count < 0)
       => ret'.error = "AssertionError" /\ ret'.value = NoneVal
    /\ (/\ ret'.op = "DecisionCoverageConditional"
        /\ (ret'.args.count_true < 0 \/ ret'.args.count_false < 0))
       => /\ ret'.error = "AssertionError" /\ ret'.value = NoneVal
          /\ covdata' = covdata
    /\ (ret'.op = "DecisionCoverageSwitch" /\ ret'.args.count < 0)
       => /\ ret'.error = "AssertionError" /\ ret'.value = NoneVal
          /\ covdata' = covdata
    /\ (/\ ret'.op = "FileCoverage.line"
        /\ ret'.args.lineno \notin DOMAIN covdata[ret'.args.filename].lines
        /\ ret'.args.count < 0)
       => /\ ret'.error = "AssertionError" /\ ret'.value = NoneVal
          /\ covdata' = covdata

\* C8: constructing a BranchCoverage, DecisionCoverageConditional,
\* DecisionCoverageSwitch, FunctionCoverage or LineCoverage with a negative
\* count raises and yields no entity; line(lineno, count=c) with c < 0 for an
\* absent lineno raises and adds no entry to the lines.
C8_NegativeCountRejected == [][C8_Step]_vars

\* line() was called for an absent, valid lineno with a negative count: it
\* raised, and the line is still absent.
C8_Witness ==
    /\ ret.op = "FileCoverage.line"
    /\ ret.args.count < 0
    /\ ret.args.lineno > 0
    /\ ret.error = "AssertionError"
    /\ ret.args.lineno \notin DOMAIN covdata[ret.args.filename].lines
    /\ covdata[ret.args.filename].lines # << >>

----------------------------------------------------------------------------
(* The decision of a line: every kind of value of line.decision.           *)

NextDecision ==
    \/ \E lineno \in FileLineInputs, count \in AssignedCounts,
          noncode \in BOOLEAN :
           /\ lineno \in DOMAIN covdata["a.c"].lines \/ Room
           /\ FileLine("a.c", lineno, count, noncode, FALSE)
    \/ \E lineno \in FileLineInputs :
           /\ HasDecision("a.c", lineno) \/ Room
           /\ SetDecisionUncheckable("a.c", lineno)
    \/ \E lineno \in FileLineInputs, count_true, count_false \in CountInputs :
           /\ HasDecision("a.c", lineno) \/ Room
           /\ SetDecisionConditional("a.c", lineno, count_true, count_false)
    \/ \E lineno \in FileLineInputs, count \in CountInputs :
           /\ HasDecision("a.c", lineno) \/ Room
           /\ SetDecisionSwitch("a.c", lineno, count)
    \/ \E lineno \in FileLineInputs :
           /\ HasDecision("a.c", lineno) \/ Room
           /\ SetDecisionOther("a.c", lineno)
    \/ \E lineno \in FileLineInputs : LineDecisionCoverage("a.c", lineno)
    \/ \E lineno \in FileLineInputs : LineDecisionPercent("a.c", lineno)

SpecDecision == InitAccess /\ [][NextDecision]_vars

Positive(counts) == Cardinality({i \in DOMAIN counts : counts[i] > 0})

\* What the claim expects of decision_coverage() for a decision d: the error
\* and the stat.
ExpectedDecisionStat(d) ==
    IF d = NoneVal THEN Ok([covered |-> 0, uncheckable |-> 0, total |-> 0])
    ELSE IF d.kind = "Uncheckable"
    THEN Ok([covered |-> 0, uncheckable |-> 1, total |-> 2])
    ELSE IF d.kind = "Conditional"
    THEN Ok([covered |-> Positive(<<d.count_true, d.count_false>>),
             uncheckable |-> 0, total |-> 2])
    ELSE IF d.kind = "Switch"
    THEN Ok([covered |-> Positive(<<d.count>>), uncheckable |-> 0, total |-> 1])
    ELSE [error |-> "RuntimeError", value |-> NoneVal]

\* C7: decision_coverage() of a line is (0,0,0) without a decision, (0,1,2)
\* for Uncheckable, (number of count_true, count_false > 0, 0, 2) for
\* Conditional, (1 if count > 0 else 0, 0, 1) for Switch, and raises for any
\* other value; its percent comes from covered and total only (None when
\* total is 0, else 100*covered/total, which is exact here).
C7_DecisionCoverageByKind ==
    LET d == covdata[ret.args.filename].lines[ret.args.lineno].decision
        expected == ExpectedDecisionStat(d)
    IN  /\ ret.op = "LineCoverage.decision_coverage"
           => ret.error = expected.error /\ ret.value = expected.value
        /\ ret.op = "LineCoverage.decision_coverage.percent"
           => /\ ret.error = expected.error
              /\ ret.error = "none"
                 => ret.value =
                        IF expected.value.total = 0 THEN NoneVal
                        ELSE Float((1000 * expected.value.covered)
                                       \div expected.value.total)

\* Conditional(count_true = 1, count_false = 0) has percent 50.0.
C7_Witness ==
    /\ ret.op = "LineCoverage.decision_coverage.percent"
    /\ LET d == covdata[ret.args.filename].lines[ret.args.lineno].decision
       IN  /\ d.kind = "Conditional"
           /\ d.count_true > 0
           /\ d.count_false = 0
    /\ ret.value = Float(500)

----------------------------------------------------------------------------
(* A project of two files: the well-formed ingestion of "a.c" next to an   *)
(* ingested "b.c", and the aggregation of both.                            *)

ProjectLineInputs == 1..MaxFileLine

\* Files as the ingestion builds them, with the accessors and assignments.
WithLine(filecov, lineno, count, noncode) ==
    FileCoverage_line(filecov, lineno, count, noncode, FALSE).self

WithBranch(filecov, lineno, branch_id, count) ==
    [filecov EXCEPT !.lines[lineno] =
        [LineCoverage_branch(@, branch_id).self
             EXCEPT !.branches[branch_id].count = count]]

WithDecision(filecov, lineno, decision) ==
    [filecov EXCEPT !.lines[lineno].decision = decision.value]

WithFunction(filecov, name, count) ==
    [FileCoverage_function(filecov, name).self
         EXCEPT !.functions[name].count = count]

SampleFile(shape, filename) ==
    IF shape = 1 THEN FileCoverage(filename)
    ELSE IF shape = 2
    THEN WithFunction(
             WithDecision(
                 WithBranch(WithBranch(WithLine(FileCoverage(filename),
                                                1, 1, FALSE), 1, 0, 1), 1, 1, 0),
                 1, DecisionCoverageConditional(1, 0)),
             "f", 1)
    ELSE IF shape = 3
    THEN WithFunction(WithFunction(
             WithDecision(WithDecision(
                 WithBranch(WithLine(WithLine(FileCoverage(filename),
                                              1, 0, FALSE), 2, 1, TRUE),
                            2, 0, 1),
                 1, DecisionCoverageUncheckable),
                 2, DecisionCoverageSwitch(1)),
             "f", 0), "g", 2)
    ELSE WithDecision(WithLine(FileCoverage(filename), 3, 1, FALSE),
                      3, DecisionCoverageSwitch(0))

ProjectRoom ==
    EntityCount(covdata, {"a.c"}) < MaxEntities

InitProject ==
    /\ covdata = ("a.c" :> FileCoverage("a.c")) @@ ("b.c" :> SampleFile(3, "b.c"))
    /\ ret = NoRet
    /\ stat = CoverageStat_new_empty
    /\ stats = SummarizedStats_new_empty
    /\ grp = SummarizedStats_new_empty
    /\ pending = {}

IngestProject(f) ==
    \/ \E lineno \in ProjectLineInputs, count \in AssignedCounts,
          noncode \in BOOLEAN :
           /\ lineno \in DOMAIN covdata[f].lines \/ ProjectRoom
           /\ FileLine(f, lineno, count, noncode, FALSE)
    \/ \E name \in FunctionInputs :
           /\ name \in DOMAIN covdata[f].functions \/ ProjectRoom
           /\ FileFunction(f, name)
    \/ \E lineno \in ProjectLineInputs, branch_id \in BranchInputs :
           /\ lineno \in DOMAIN covdata[f].lines
           /\ branch_id \in DOMAIN covdata[f].lines[lineno].branches
                 \/ ProjectRoom
           /\ LineBranch(f, lineno, branch_id)
    \/ \E lineno \in ProjectLineInputs, count \in AssignedCounts :
           SetLineCount(f, lineno, count)
    \/ \E lineno \in ProjectLineInputs, branch_id \in BranchInputs,
          count \in AssignedCounts :
           SetBranchCount(f, lineno, branch_id, count)
    \/ \E name \in FunctionInputs, count \in AssignedCounts :
           SetFunctionCount(f, name, count)
    \/ \E lineno \in ProjectLineInputs :
           /\ HasDecision(f, lineno) \/ ProjectRoom
           /\ SetDecisionUncheckable(f, lineno)
    \/ \E lineno \in ProjectLineInputs, count_true, count_false \in AssignedCounts :
           /\ HasDecision(f, lineno) \/ ProjectRoom
           /\ SetDecisionConditional(f, lineno, count_true, count_false)
    \/ \E lineno \in ProjectLineInputs, count \in AssignedCounts :
           /\ HasDecision(f, lineno) \/ ProjectRoom
           /\ SetDecisionSwitch(f, lineno, count)

AggregateProject(f) ==
    \/ \E lineno \in ProjectLineInputs : LineBranchCoverage(f, lineno)
    \/ \E lineno \in ProjectLineInputs : LineDecisionCoverage(f, lineno)
    \/ FileLineCoverage(f)
    \/ FileBranchCoverage(f)
    \/ FileFunctionCoverage(f)
    \/ FileDecisionCoverage(f)
    \/ FromFile(f)

NextProject ==
    \/ IngestProject("a.c")
    \/ AggregateProject("a.c")
    \/ FromCovdata

SpecProject == InitProject /\ [][NextProject]_vars

StatOk(s) == 0 <= s.covered /\ s.covered <= s.total

SummaryOk(summary) ==
    /\ summary.error = "none"
    /\ StatOk(summary.value.line)
    /\ StatOk(summary.value.branch)
    /\ StatOk(summary.value.function)
    /\ StatOk(summary.value.decision)

\* C10: after any ingestion of non-negative counts and well-formed decisions,
\* every statistic the aggregation returns has 0 <= covered <= total: the
\* branch and decision coverage of every line, the four coverages of every
\* file, SummarizedStats.from_file of every file and from_covdata.
C10_CoveredAtMostTotal ==
    /\ \A f \in DOMAIN covdata :
           /\ \A l \in DOMAIN covdata[f].lines :
                  /\ StatOk(LineCoverage_branch_coverage(covdata[f].lines[l]))
                  /\ LineCoverage_decision_coverage(covdata[f].lines[l]).error
                         = "none"
                  /\ StatOk(LineCoverage_decision_coverage(
                                covdata[f].lines[l]).value)
           /\ StatOk(FileCoverage_line_coverage(covdata[f]))
           /\ StatOk(FileCoverage_branch_coverage(covdata[f]))
           /\ StatOk(FileCoverage_function_coverage(covdata[f]))
           /\ FileCoverage_decision_coverage(covdata[f]).error = "none"
           /\ StatOk(FileCoverage_decision_coverage(covdata[f]).value)
           /\ SummaryOk(SummarizedStats_from_file(covdata[f]))
    /\ SummaryOk(SummarizedStats_from_covdata(covdata))
    /\ ret.op \in {"LineCoverage.branch_coverage",
                   "LineCoverage.decision_coverage",
                   "FileCoverage.line_coverage", "FileCoverage.branch_coverage",
                   "FileCoverage.function_coverage",
                   "FileCoverage.decision_coverage"}
           => ret.error = "none" /\ StatOk(ret.value)
    /\ ret.op \in {"SummarizedStats.from_file", "SummarizedStats.from_covdata"}
           => SummaryOk(ret)

\* from_covdata() of a project where "a.c" has a covered line with an
\* uncovered branch: line (1, 1) of "a.c" and (0, 1) of "b.c".
C10_Witness ==
    /\ ret.op = "SummarizedStats.from_covdata"
    /\ FileCoverage_line_coverage(covdata["a.c"]) = CoverageStat(1, 1)
    /\ FileCoverage_branch_coverage(covdata["a.c"]) = CoverageStat(0, 1)
    /\ ret.value.line = CoverageStat(1, 2)
    /\ ret.value.branch = CoverageStat(1, 2)

----------------------------------------------------------------------------
(* Summing the files of a project: the loop of from_covdata() in any order *)
(* of the files, and the same merge applied to groups of files.            *)

Shapes == 1..4

FileName(i) == <<"a.c", "b.c", "c.c", "d.c", "e.c">>[i]

SumFileInputs == {FileName(i) : i \in 1..MaxFiles}

InitSum ==
    /\ \E shape \in [SumFileInputs -> Shapes] :
           covdata = [f \in SumFileInputs |-> SampleFile(shape[f], f)]
    /\ ret = NoRet
    /\ stat = CoverageStat_new_empty
    /\ stats = SummarizedStats_new_empty
    /\ grp = SummarizedStats_new_empty
    /\ pending = SumFileInputs

\* One iteration of the loop of from_covdata(): stats += from_file(filecov).
FromCovdataStep(f) ==
    /\ f \in pending
    /\ stats' = SummarizedStats_iadd(stats,
                    SummarizedStats_from_file(covdata[f]).value)
    /\ pending' = pending \ {f}
    /\ ret' = NoRet
    /\ UNCHANGED <<covdata, stat, grp>>

\* The file is merged into the current group instead.
GroupStep(f) ==
    /\ f \in pending
    /\ grp' = SummarizedStats_iadd(grp,
                  SummarizedStats_from_file(covdata[f]).value)
    /\ pending' = pending \ {f}
    /\ ret' = NoRet
    /\ UNCHANGED <<covdata, stat, stats>>

\* The current group is merged into the result and a new group begins.
GroupMerge ==
    /\ grp # SummarizedStats_new_empty
    /\ stats' = SummarizedStats_iadd(stats, grp)
    /\ grp' = SummarizedStats_new_empty
    /\ ret' = NoRet
    /\ UNCHANGED <<covdata, stat, pending>>

FromCovdataReturn ==
    /\ pending = {}
    /\ grp = SummarizedStats_new_empty
    /\ ret' = Returned("SummarizedStats.from_covdata", NoneVal, Ok(stats))
    /\ UNCHANGED <<covdata, stat, stats, grp, pending>>

NextSum ==
    \/ \E f \in SumFileInputs : FromCovdataStep(f)
    \/ \E f \in SumFileInputs : GroupStep(f)
    \/ GroupMerge
    \/ FromCovdataReturn

SpecSum == InitSum /\ [][NextSum]_vars

\* The nine numbers of a SummarizedStats.
Numbers(summary) ==
    <<summary.line.covered, summary.line.total,
      summary.branch.covered, summary.branch.total,
      summary.function.covered, summary.function.total,
      summary.decision.covered, summary.decision.uncheckable,
      summary.decision.total>>

RECURSIVE SumOverFiles(_, _, _)
SumOverFiles(data, filenames, i) ==
    IF filenames = {} THEN 0
    ELSE LET f == CHOOSE x \in filenames : TRUE
         IN  Numbers(SummarizedStats_from_file(data[f]).value)[i]
             + SumOverFiles(data, filenames \ {f}, i)

\* C2: whatever the order and the grouping of the files, the merged result
\* has in each of its nine numbers the sum of that number over
\* SummarizedStats.from_file(f) of every file f, and it is what
\* from_covdata(covdata) returns.
C2_FromCovdataIsSumOfFiles ==
    (ret.op = "SummarizedStats.from_covdata")
    => /\ ret.error = "none"
       /\ Numbers(ret.value)
              = [i \in 1..9 |-> SumOverFiles(covdata, DOMAIN covdata, i)]
       /\ ret = Returned("SummarizedStats.from_covdata", NoneVal,
                         SummarizedStats_from_covdata(covdata))

\* A result with an uncheckable decision, reached with files merged as a group.
C2_Witness ==
    /\ ret.op = "SummarizedStats.from_covdata"
    /\ pending = {}
    /\ ret.value.decision.uncheckable > 0
    /\ ret.value.branch.covered > 1
    /\ ret.value.function.total > 2

====
